---------------------------- MODULE Spec2Model ----------------------------
(***************************************************************************)
(* A model of SlyMarbo/embed (src/embed.go): the identifier sanitiser,     *)
(* the stream encoder Embed with its optional gzip and SHA1 layers, and    *)
(* the per-file loop of main.                                              *)
(*                                                                         *)
(* Strings are sequences of bytes (0..255), as in Go.  Three               *)
(* specifications share the variables:                                     *)
(*   SpecSanitise  applies sanitise to every bounded file name,            *)
(*   Spec          runs one call of Embed, statement by statement,         *)
(*   SpecMain      runs main's loop over the input files.                  *)
(***************************************************************************)
EXTENDS Integers, Sequences, FiniteSets, TLC

VARIABLES
    \* ---- sanitise, called on its own
    sPc, sName, sOut,
    \* ---- Embed
    pc,        \* position in Embed
    compress,  \* *compress
    sha,       \* *sha
    name,      \* the name argument
    input,     \* the bytes src will deliver
    srcPos,    \* how many bytes src has delivered
    buf,       \* var buf [BUF_SIZE]byte
    n,         \* var n int
    err,       \* the named result err
    gz,        \* the gzip.Writer wc (unused when compress is off)
    hashed,    \* the bytes written to hasher
    sum,       \* sum, the digest bytes still to be written
    sink,      \* the bytes that reached the caller's dst
    sinkClosed,\* whether the caller's dst was closed
    \* ---- Embed, history
    wrote,     \* the Fprintf calls Embed made on dst: [kind, data]
    reads,     \* the number of io.ReadFull calls
    closes,    \* the number of wc.Close calls
    firstErr,  \* the first error a read or a write returned
    closeErr,  \* what wc.Close returned
    digestOf,  \* the hasher's content when hasher.Sum was called
    \* ---- main
    mPc, mUseO, mArgs, mI, mDst, mSrc, mExit, mDiag, mFailed, mEmbedded,
    mOpened

sanVars   == <<sPc, sName, sOut>>
embedVars == <<pc, compress, sha, name, input, srcPos, buf, n, err, gz,
               hashed, sum, sink, sinkClosed, wrote, reads, closes,
               firstErr, closeErr, digestOf>>
mainVars  == <<mPc, mUseO, mArgs, mI, mDst, mSrc, mExit, mDiag, mFailed,
               mEmbedded, mOpened>>
vars      == <<sanVars, embedVars, mainVars>>

----------------------------------------------------------------------------
(* Bounds of the model *)

MaxNameLen == 3     \* file names given to sanitise have at most this many bytes
MaxLen == 25        \* inputs of Embed have at most this many bytes
FlateWindow == 64   \* bytes the compressor buffers before it emits a block
MaxFiles == 3       \* main is given at most this many input files

BUF_SIZE == 12

----------------------------------------------------------------------------
(* Sequences of bytes *)

Min(a, b) == IF a < b THEN a ELSE b

Drop(s, k) == SubSeq(s, k + 1, Len(s))

Take(s, k) == SubSeq(s, 1, k)

IsPrefix(s, t) == Len(s) <= Len(t) /\ Take(t, Len(s)) = s

RECURSIVE Flatten(_)
Flatten(ss) == IF ss = <<>> THEN <<>> ELSE Head(ss) \o Flatten(Tail(ss))

\* the sequences over S of length at most k
SeqsUpTo(S, k) == UNION {[1..len -> S] : len \in 0..k}

----------------------------------------------------------------------------
(* path/filepath.Base, unicode/utf8 and unicode, as sanitise uses them *)

Slash == 47
Underscore == 95
RuneError == 65533

RECURSIVE StripTrailingSlashes(_)
StripTrailingSlashes(p) ==
    IF p # <<>> /\ p[Len(p)] = Slash
    THEN StripTrailingSlashes(Take(p, Len(p) - 1))
    ELSE p

RECURSIVE AfterLastSlash(_)
AfterLastSlash(p) ==
    IF p = <<>> THEN <<>>
    ELSE IF \E i \in 1..Len(p) : p[i] = Slash
         THEN AfterLastSlash(Tail(p))
         ELSE p

\* filepath.Base on a Unix path
Base(p) ==
    IF p = <<>> THEN <<46>>
    ELSE LET t == StripTrailingSlashes(p) IN
         IF t = <<>> THEN <<Slash>> ELSE AfterLastSlash(t)

\* utf8.DecodeRuneInString for one- and two-byte encodings: the rune and
\* its width; an invalid or incomplete encoding is RuneError of width 1
DecodeRune(s) ==
    LET b == s[1] IN
    IF b < 128 THEN [r |-> b, n |-> 1]
    ELSE IF b >= 194 /\ b <= 223 /\ Len(s) >= 2 /\ s[2] >= 128 /\ s[2] <= 191
         THEN [r |-> (b - 192) * 64 + (s[2] - 128), n |-> 2]
         ELSE [r |-> RuneError, n |-> 1]

\* bytes.Buffer.WriteRune for runes below U+0800
EncodeRune(r) ==
    IF r < 128 THEN <<r>> ELSE <<192 + (r \div 64), 128 + (r % 64)>>

\* unicode.IsLetter on U+0000..U+00FF (category L); false for RuneError
IsLetter(r) ==
    \/ r \in 65..90
    \/ r \in 97..122
    \/ r \in {170, 181, 186}
    \/ r \in 192..214
    \/ r \in 216..246
    \/ r \in 248..255

\* unicode.IsNumber on U+0000..U+00FF (category N: Nd, Nl and No)
IsNumber(r) ==
    \/ r \in 48..57
    \/ r \in {178, 179, 185, 188, 189, 190}

\* unicode.IsDigit on U+0000..U+00FF (category Nd)
IsDigit(r) == r \in 48..57

----------------------------------------------------------------------------
(* sanitise *)

RetainedAnywhere(r, first) == IsLetter(r) \/ IsNumber(r)

\* the condition of the if statement in sanitise's loop
Retained(r, first) == IsLetter(r) \/ (~first /\ IsNumber(r))

RECURSIVE SanitiseLoopCoalescing(_, _, _)
SanitiseLoopCoalescing(rest, first, out) ==
    IF Len(rest) = 0 THEN out
    ELSE LET d == DecodeRune(rest) IN
         IF Retained(d.r, first)
         THEN SanitiseLoopCoalescing(Drop(rest, d.n), FALSE,
                                     out \o EncodeRune(d.r))
         ELSE IF out # <<>> /\ out[Len(out)] = Underscore
              THEN SanitiseLoopCoalescing(Drop(rest, d.n), first, out)
              ELSE SanitiseLoopCoalescing(Drop(rest, d.n), first,
                                          Append(out, Underscore))

\* the loop of sanitise over the bytes of the base name still to decode
RECURSIVE SanitiseLoop(_, _, _)
SanitiseLoop(rest, first, out) ==
    IF Len(rest) = 0 THEN out
    ELSE LET d == DecodeRune(rest) IN
         IF Retained(d.r, first)
         THEN SanitiseLoop(Drop(rest, d.n), FALSE, out \o EncodeRune(d.r))
         ELSE SanitiseLoop(Drop(rest, d.n), first, Append(out, Underscore))

\* the check of the empty buffer after the loop
Fallback(out) == IF Len(out) = 0 THEN <<Underscore>> ELSE out

sanitise(nm) == Fallback(SanitiseLoop(Base(nm), TRUE, <<>>))

\* the runes of a string, decoded as sanitise's loop decodes them
RECURSIVE Runes(_)
Runes(s) ==
    IF Len(s) = 0 THEN <<>>
    ELSE LET d == DecodeRune(s) IN <<d.r>> \o Runes(Drop(s, d.n))

----------------------------------------------------------------------------
(* The text Embed formats *)

\* one digit of the verb %02x
HexDigit(d) == IF d < 10 THEN 48 + d ELSE 87 + d

\* fmt.Fprintf(&w, "0x%02x, ", b)
HexEntry(b) == <<48, 120, HexDigit(b \div 16), HexDigit(b % 16), 44, 32>>

\* the loop that fills w with the entries of the first k bytes of b
RECURSIVE HexEntries(_, _)
HexEntries(b, k) ==
    IF k = 0 THEN <<>> ELSE HexEntries(b, k - 1) \o HexEntry(b[k])

FormatLineWholeBuffer(b, k) ==
    LET data == HexEntries(b, Len(b)) IN
    <<9>> \o Take(data, Len(data) - 1) \o <<10>>

FormatLineUntrimmed(b, k) ==
    LET data == HexEntries(b, k) IN <<9>> \o data \o <<10>>

\* the argument of the Fprintf of one byte line: "\t%s\n" applied to
\* data[:len(data)-1]
FormatLine(b, k) ==
    LET data == HexEntries(b, k) IN
    <<9>> \o Take(data, Len(data) - 1) \o <<10>>

\* "\n// %s\nvar %s = []byte{\n"
DataHeader(nm, ident) ==
    <<10, 47, 47, 32>> \o nm \o <<10, 118, 97, 114, 32>> \o ident
        \o <<32, 61, 32, 91, 93, 98, 121, 116, 101, 123, 10>>

\* "}\n"
Footer == <<125, 10>>

\* "\n// SHA1 hash of %s\nvar %s_SHA1 = []byte{\n"
HashHeader(nm, ident) ==
    <<10, 47, 47, 32, 83, 72, 65, 49, 32, 104, 97, 115, 104, 32, 111, 102, 32>>
        \o nm \o <<10, 118, 97, 114, 32>> \o ident
        \o <<95, 83, 72, 65, 49>>
        \o <<32, 61, 32, 91, 93, 98, 121, 116, 101, 123, 10>>

----------------------------------------------------------------------------
(* crypto/sha1.  The digest is modelled by a 20-byte positional checksum   *)
(* of the bytes written to the hasher: a function of exactly those bytes,  *)
(* of the length SHA1 has.                                                 *)

Sha1Size == 20

\* the sum of (off + i) * (m[i] + 1) over lo..hi, halving the range
RECURSIVE WeightedSum(_, _, _, _)
WeightedSum(m, lo, hi, off) ==
    IF lo > hi THEN 0
    ELSE IF lo = hi THEN ((off + lo) * (m[lo] + 1)) % 16777216
    ELSE LET mid == (lo + hi) \div 2 IN
         (WeightedSum(m, lo, mid, off) + WeightedSum(m, mid + 1, hi, off))
             % 16777216

\* hasher.Sum(nil) of a hasher that was written the bytes m
Sha1Sum(m) ==
    [k \in 1..Sha1Size |-> (WeightedSum(m, 1, Len(m), k) + 7 * k + Len(m)) % 256]

----------------------------------------------------------------------------
(* compress/gzip.  The writer emits the 10-byte header on its first Write, *)
(* buffers what it is written, emits a DEFLATE block whenever FlateWindow  *)
(* bytes are buffered, and on Close emits the final block and the trailer  *)
(* (checksum and size, 4 bytes each, little endian).  DEFLATE blocks are   *)
(* stored blocks, and the CRC-32 is modelled by a positional checksum      *)
(* (of 24 bits, so that every product stays within TLC's integers).        *)

GzipHeader == <<31, 139, 8, 0, 0, 0, 0, 0, 2, 255>>

Le16(v) == <<v % 256, (v \div 256) % 256>>

Le32(v) == <<v % 256, (v \div 256) % 256, (v \div 65536) % 256,
             (v \div 16777216) % 256>>

\* a stored DEFLATE block: BFINAL and BTYPE=00, LEN, NLEN, the bytes
StoredBlock(final, data) ==
    <<final>> \o Le16(Len(data)) \o Le16(65535 - Len(data)) \o data

\* the checksum c of size bytes, after the bytes data that follow them
Crc(c, size, data) == (c + WeightedSum(data, 1, Len(data), size)) % 16777216

GzipTrailer(crc, size) == Le32(crc) \o Le32(size)

\* a gzip.Writer that was not yet written to
NewGzip == [wroteHeader |-> FALSE, closed |-> FALSE, err |-> "nil",
            pending |-> <<>>, crc |-> 0, size |-> 0]

\* A write of p to the caller's dst.  how = "ok": all of p is accepted;
\* "fail": the write returns an error and nothing is accepted; "short":
\* it returns an error after accepting half of p.
SinkWrite(s, p, how) ==
    CASE how = "ok"    -> [sink |-> s \o p, err |-> "nil"]
      [] how = "fail"  -> [sink |-> s, err |-> "SinkErr"]
      [] how = "short" -> [sink |-> s \o Take(p, Len(p) \div 2), err |-> "SinkErr"]

\* gzip.Writer.Write(p): the writer and the sink after it, and its error
GzipWrite(g, s, p, how) ==
    IF g.err # "nil" THEN [gz |-> g, sink |-> s, err |-> g.err]
    ELSE
      LET h == IF g.wroteHeader THEN [sink |-> s, err |-> "nil"]
               ELSE SinkWrite(s, GzipHeader, how)
      IN
      IF h.err # "nil"
      THEN [gz |-> [g EXCEPT !.err = h.err], sink |-> h.sink, err |-> h.err]
      ELSE
        LET all == g.pending \o p
            g1 == [g EXCEPT !.wroteHeader = TRUE,
                            !.crc = Crc(g.crc, g.size, p),
                            !.size = g.size + Len(p)]
        IN
        IF Len(all) < FlateWindow
        THEN [gz |-> [g1 EXCEPT !.pending = all], sink |-> h.sink, err |-> "nil"]
        ELSE
          LET w == SinkWrite(h.sink, StoredBlock(0, all), how) IN
          [gz |-> [g1 EXCEPT !.pending = <<>>, !.err = w.err],
           sink |-> w.sink, err |-> w.err]

\* gzip.Writer.Close(): it never closes the writer underneath
GzipClose(g, s, how) ==
    IF g.err # "nil" THEN [gz |-> g, sink |-> s, err |-> g.err]
    ELSE IF g.closed THEN [gz |-> g, sink |-> s, err |-> "nil"]
    ELSE
      LET head == IF g.wroteHeader THEN <<>> ELSE GzipHeader
          w == SinkWrite(s, head \o StoredBlock(1, g.pending)
                               \o GzipTrailer(g.crc, g.size), how)
      IN
      [gz |-> [g EXCEPT !.closed = TRUE, !.wroteHeader = TRUE,
                        !.pending = <<>>, !.err = w.err],
       sink |-> w.sink, err |-> w.err]

\* What a gzip reader makes of z: the uncompressed bytes, or <<-1>> when z
\* is not a complete gzip stream.
RECURSIVE InflateStored(_, _)
InflateStored(z, acc) ==
    IF Len(z) < 5 \/ z[1] \notin {0, 1} THEN <<-1>>
    ELSE
      LET len == z[2] + 256 * z[3]
          nlen == z[4] + 256 * z[5]
      IN
      IF len + nlen # 65535 \/ Len(z) < 5 + len THEN <<-1>>
      ELSE
        LET data == SubSeq(z, 6, 5 + len)
            rest == Drop(z, 5 + len)
        IN
        IF z[1] = 0 THEN InflateStored(rest, acc \o data)
        ELSE IF rest = GzipTrailer(Crc(0, 0, acc \o data), Len(acc \o data))
             THEN acc \o data
             ELSE <<-1>>

Gunzip(z) ==
    IF Len(z) < Len(GzipHeader) \/ Take(z, Len(GzipHeader)) # GzipHeader
    THEN <<-1>>
    ELSE InflateStored(Drop(z, Len(GzipHeader)), <<>>)

\* the gzip stream of data, as one Write and a Close produce it
Gzip(data) ==
    LET w == GzipWrite(NewGzip, <<>>, data, "ok") IN
    GzipClose(w.gz, w.sink, "ok").sink

----------------------------------------------------------------------------
(* Embed *)

\* the file names Embed is given: "a" and "d/1.b"
EmbedNames == {<<97>>, <<100, 47, 49, 46, 98>>}

\* the inputs: zero bytes, "ABC...", and a descending run of high bytes
InputByte(pat, i) ==
    CASE pat = 0 -> 0
      [] pat = 1 -> 65 + (i - 1)
      [] pat = 2 -> (255 - 23 * (i - 1)) % 256

Inputs == {[i \in 1..len |-> InputByte(pat, i)] : len \in 0..MaxLen, pat \in 0..2}

\* how a write to the caller's dst may end
Outcomes == {"ok", "fail", "short"}

\* io.EOF and io.ErrUnexpectedEOF end the read loop, they are not failures
IsEnd(e) == e \in {"EOF", "ErrUnexpectedEOF"}

InitSanitiseIdle == sPc = "idle" /\ sName = <<>> /\ sOut = <<>>

InitMainIdle ==
    /\ mPc = "idle" /\ mUseO = FALSE /\ mArgs = 0 /\ mI = 0
    /\ mDst = "nil" /\ mSrc = "nil" /\ mExit = -1 /\ mDiag = <<>>
    /\ mFailed = {} /\ mEmbedded = {} /\ mOpened = {}

InitEmbedIdle ==
    /\ pc = "idle" /\ compress = FALSE /\ sha = FALSE
    /\ name = <<>> /\ input = <<>> /\ srcPos = 0
    /\ buf = [i \in 1..BUF_SIZE |-> 0] /\ n = 0 /\ err = "nil"
    /\ gz = NewGzip /\ hashed = <<>> /\ sum = <<>>
    /\ sink = <<>> /\ sinkClosed = FALSE
    /\ wrote = <<>> /\ reads = 0 /\ closes = 0
    /\ firstErr = "nil" /\ closeErr = "nil" /\ digestOf = <<>>

\* Embed is called with an open dst and src
Init ==
    /\ InitSanitiseIdle
    /\ InitMainIdle
    /\ pc = "start"
    /\ compress \in BOOLEAN
    /\ sha \in BOOLEAN
    /\ name \in EmbedNames
    /\ input \in Inputs
    /\ srcPos = 0
    /\ buf = [i \in 1..BUF_SIZE |-> 0] /\ n = 0 /\ err = "nil"
    /\ gz = NewGzip /\ hashed = <<>> /\ sum = <<>>
    /\ sink = <<>> /\ sinkClosed = FALSE
    /\ wrote = <<>> /\ reads = 0 /\ closes = 0
    /\ firstErr = "nil" /\ closeErr = "nil" /\ digestOf = <<>>

\* dst.Write(p) through the writers Embed stacked on dst: the gzip writer
\* when compress is set, then io.MultiWriter, which writes to the hasher
\* only what the writer before it accepted without error
DstWrite(p, how) ==
    LET w == IF compress THEN GzipWrite(gz, sink, p, how)
             ELSE LET d == SinkWrite(sink, p, how) IN
                  [gz |-> gz, sink |-> d.sink, err |-> d.err]
    IN [gz |-> w.gz, sink |-> w.sink, err |-> w.err,
        hashed |-> IF sha /\ w.err = "nil" THEN hashed \o p ELSE hashed]

AfterWriteGoOn(e, next) == next

\* if err != nil { return err } after a write
AfterWrite(e, next) == IF e # "nil" THEN "return" ELSE next

\* _, err = fmt.Fprintf(dst, ...) and the check of err that follows it
Fprint(kind, p, next) ==
    \E how \in Outcomes :
        LET w == DstWrite(p, how) IN
        /\ gz' = w.gz
        /\ sink' = w.sink
        /\ hashed' = w.hashed
        /\ err' = w.err
        /\ wrote' = Append(wrote, [kind |-> kind, data |-> p])
        /\ firstErr' = IF firstErr = "nil" THEN w.err ELSE firstErr
        /\ pc' = AfterWrite(w.err, next)

\* the layers are set up: the compressor, the hasher, the identifier
Setup ==
    /\ pc = "start"
    /\ gz' = NewGzip
    /\ hashed' = <<>>
    /\ buf' = [i \in 1..BUF_SIZE |-> 0]
    /\ n' = 0
    /\ pc' = "header"
    /\ UNCHANGED <<sanVars, mainVars, compress, sha, name, input, srcPos, err, sum, sink,
                   sinkClosed, wrote, reads, closes, firstErr, closeErr,
                   digestOf>>

WriteHeader ==
    /\ pc = "header"
    /\ Fprint("header", DataHeader(name, sanitise(name)), "read")
    /\ UNCHANGED <<sanVars, mainVars, compress, sha, name, input, srcPos, buf, n, sum,
                   sinkClosed, reads, closes, closeErr, digestOf>>

\* the two tests after io.ReadFull
AfterRead(e, k) ==
    IF e # "nil" /\ ~IsEnd(e) THEN "return"
    ELSE IF k = 0 THEN "footer" ELSE "line"

\* buf after k more bytes of the input were read into it
Filled(k) ==
    [i \in 1..BUF_SIZE |-> IF i <= k THEN input[srcPos + i] ELSE buf[i]]

\* n, err = io.ReadFull(src, buf[:]): the buffer is filled, or the source
\* ends (io.EOF with nothing read, io.ErrUnexpectedEOF with some), or a
\* read fails after k bytes
ReadFull ==
    /\ pc = "read"
    /\ reads' = reads + 1
    /\ LET avail == Len(input) - srcPos IN
       \/ LET k == Min(BUF_SIZE, avail)
              e == IF k = BUF_SIZE THEN "nil"
                   ELSE IF k = 0 THEN "EOF" ELSE "ErrUnexpectedEOF"
          IN /\ n' = k
             /\ buf' = Filled(k)
             /\ srcPos' = srcPos + k
             /\ err' = e
             /\ firstErr' = firstErr
             /\ pc' = AfterRead(e, k)
       \/ \E k \in {0, Min(BUF_SIZE - 1, avail)} :
             /\ n' = k
             /\ buf' = Filled(k)
             /\ srcPos' = srcPos + k
             /\ err' = "ReadErr"
             /\ firstErr' = IF firstErr = "nil" THEN "ReadErr" ELSE firstErr
             /\ pc' = AfterRead("ReadErr", k)
    /\ UNCHANGED <<sanVars, mainVars, compress, sha, name, input, gz, hashed, sum, sink,
                   sinkClosed, wrote, closes, closeErr, digestOf>>

WriteLine ==
    /\ pc = "line"
    /\ Fprint("line", FormatLine(buf, n),
              IF n # BUF_SIZE THEN "footer" ELSE "read")
    /\ UNCHANGED <<sanVars, mainVars, compress, sha, name, input, srcPos, buf, n, sum,
                   sinkClosed, reads, closes, closeErr, digestOf>>

WriteFooter ==
    /\ pc = "footer"
    /\ Fprint("footer", Footer, IF sha THEN "sum" ELSE "return")
    /\ UNCHANGED <<sanVars, mainVars, compress, sha, name, input, srcPos, buf, n, sum,
                   sinkClosed, reads, closes, closeErr, digestOf>>

\* sum := hasher.Sum(nil), then the header of the hash literal
WriteHashHeader ==
    /\ pc = "sum"
    /\ sum' = Sha1Sum(hashed)
    /\ digestOf' = hashed
    /\ Fprint("hashheader", HashHeader(name, sanitise(name)),
              IF Len(Sha1Sum(hashed)) > 0 THEN "hashline" ELSE "hashfooter")
    /\ UNCHANGED <<sanVars, mainVars, compress, sha, name, input, srcPos, buf, n,
                   sinkClosed, reads, closes, closeErr>>

\* one turn of the loop over sum
WriteHashLine ==
    /\ pc = "hashline"
    /\ LET k == Min(Len(sum), BUF_SIZE) IN
       /\ Fprint("hashline", FormatLine(sum, k),
                 IF Len(sum) - k > 0 THEN "hashline" ELSE "hashfooter")
       /\ sum' = Drop(sum, k)
    /\ UNCHANGED <<sanVars, mainVars, compress, sha, name, input, srcPos, buf, n,
                   sinkClosed, reads, closes, closeErr, digestOf>>

WriteHashFooter ==
    /\ pc = "hashfooter"
    /\ Fprint("hashfooter", Footer, "return")
    /\ UNCHANGED <<sanVars, mainVars, compress, sha, name, input, srcPos, buf, n, sum,
                   sinkClosed, reads, closes, closeErr, digestOf>>

DeferResultLast(e, c) == IF c # "nil" THEN c ELSE e

\* the deferred function: if err == nil && e != nil { err = e }
DeferResult(e, c) == IF e = "nil" /\ c # "nil" THEN c ELSE e

DeferredOnSuccess(c, e) == c /\ e = "nil"

\* whether a deferred wc.Close() runs when Embed returns with err = e:
\* the defer statement was executed iff compress is set
Deferred(c, e) == c

\* Embed returns: the deferred function runs, if there is one
Return ==
    /\ pc = "return"
    /\ \/ /\ Deferred(compress, err)
          /\ \E how \in Outcomes :
                LET c == GzipClose(gz, sink, how) IN
                /\ gz' = c.gz
                /\ sink' = c.sink
                /\ closeErr' = c.err
                /\ err' = DeferResult(err, c.err)
          /\ closes' = closes + 1
       \/ /\ ~Deferred(compress, err)
          /\ UNCHANGED <<gz, sink, closeErr, err, closes>>
    /\ pc' = "done"
    /\ UNCHANGED <<sanVars, mainVars, compress, sha, name, input, srcPos, buf, n, hashed, sum,
                   sinkClosed, wrote, reads, firstErr, digestOf>>

Next ==
    \/ Setup
    \/ WriteHeader
    \/ ReadFull
    \/ WriteLine
    \/ WriteFooter
    \/ WriteHashHeader
    \/ WriteHashLine
    \/ WriteHashFooter
    \/ Return

Spec == Init /\ [][Next]_vars

----------------------------------------------------------------------------
(* sanitise, called on every bounded file name *)

\* the bytes of the names: a 1 . / and the bytes of the two-byte encodings
\* of U+00E9 (a letter), U+00B2 (a number that is no digit), U+00A9 and
\* U+00F2; any other order of the last four is an invalid encoding
NameBytes == {97, 49, 46, 47, 195, 169, 194, 178}

Names == SeqsUpTo(NameBytes, MaxNameLen)

InitSanitise ==
    /\ sPc = "call"
    /\ sName \in Names
    /\ sOut = <<>>
    /\ InitEmbedIdle
    /\ InitMainIdle

SanitiseCall ==
    /\ sPc = "call"
    /\ sOut' = sanitise(sName)
    /\ sPc' = "ret"
    /\ UNCHANGED <<sName, embedVars, mainVars>>

NextSanitise == SanitiseCall

SpecSanitise == InitSanitise /\ [][NextSanitise]_vars

\* the code points of the base name sanitise works on
BaseRunes == Runes(Base(sName))

NoLetter(rs) == \A i \in 1..Len(rs) : ~IsLetter(rs[i])

\* C6, as stated: when the base name is empty or has no letter, sanitise
\* returns exactly "_".
C6_AsStated ==
    sPc = "ret" /\ NoLetter(BaseRunes) => sOut = <<Underscore>>

\* C6, amended: when the base name is empty or has no letter, sanitise
\* returns only underscores, one for each code point of the base name as
\* filepath.Base gives it ("." for an empty name, "/" for a name of
\* separators only): exactly "_" for those two, and for any base name of
\* one code point.
C6_Underscores ==
    sPc = "ret" /\ NoLetter(BaseRunes) =>
        /\ sOut = [i \in 1..Len(BaseRunes) |-> Underscore]
        /\ Len(sOut) >= 1
        /\ (sName = <<>> \/ \A i \in 1..Len(sName) : sName[i] = Slash)
              => sOut = <<Underscore>>

\* a name of two digits was sanitised to two underscores
C6_Witness ==
    /\ sPc = "ret"
    /\ sName = <<49, 49>>
    /\ sOut = <<Underscore, Underscore>>

----------------------------------------------------------------------------
(* Reading back what Embed wrote *)

\* the value of a lower-case hexadecimal digit, -1 for any other byte
HexVal(c) ==
    IF c \in 48..57 THEN c - 48
    ELSE IF c \in 97..102 THEN c - 87 ELSE -1

\* the elements of a finite set of numbers, in ascending order
Ascending(P) ==
    [j \in 1..Cardinality(P) |->
        CHOOSE i \in P : Cardinality({x \in P : x < i}) = j - 1]

\* the bytes that the entries 0xhh of a text stand for, in order
HexBytes(text) ==
    LET at == Ascending({i \in 1..(Len(text) - 3) :
                            text[i] = 48 /\ text[i + 1] = 120})
    IN [j \in 1..Len(at) |->
           16 * HexVal(text[at[j] + 2]) + HexVal(text[at[j] + 3])]

\* the bytes of the data literal of a Go source text that starts with the
\* declaration Embed writes for name: the entries up to the closing brace;
\* <<-1>> when the text holds no such literal
ParseLiteral(text) ==
    LET head == DataHeader(name, sanitise(name))
        h == Len(head)
    IN IF ~IsPrefix(head, text) \/ ~\E e \in (h + 1)..Len(text) : text[e] = 125
       THEN <<-1>>
       ELSE LET e == CHOOSE e \in (h + 1)..Len(text) :
                        /\ text[e] = 125
                        /\ \A x \in (h + 1)..(e - 1) : text[x] # 125
            IN HexBytes(SubSeq(text, h + 1, e - 1))

\* A byte line of k entries: a tab, the entries 0xhh with ", " between
\* them, the bytes tail after the last entry, a newline.
IsByteLine(line, k, tail) ==
    /\ Len(line) = 6 * k + Len(tail)
    /\ line[1] = 9
    /\ \A i \in 1..k :
          LET o == 6 * (i - 1) + 1 IN
          /\ line[o + 1] = 48
          /\ line[o + 2] = 120
          /\ HexVal(line[o + 3]) >= 0
          /\ HexVal(line[o + 4]) >= 0
          /\ i < k => line[o + 5] = 44 /\ line[o + 6] = 32
    /\ SubSeq(line, 6 * k, Len(line) - 1) = tail
    /\ line[Len(line)] = 10

\* the number of entries of a byte line
EntryCount(line) == Cardinality({i \in 1..(Len(line) - 1) :
                                    line[i] = 48 /\ line[i + 1] = 120})

Written(kinds) == SelectSeq(wrote, LAMBDA w : w.kind \in kinds)

DataLines == Written({"line"})

\* everything Embed wrote to dst, as one text
WrittenText == Flatten([i \in 1..Len(wrote) |-> wrote[i].data])

\* hasher.Sum was called: the header of the hash literal was formatted
DigestTaken == Written({"hashheader"}) # <<>>

\* the digest the hash literal shows, read back from its byte lines
EmittedDigest ==
    LET ls == Written({"hashline"}) IN
    HexBytes(Flatten([i \in 1..Len(ls) |-> ls[i].data]))

----------------------------------------------------------------------------
(* Claims about Embed *)

\* what the data literal is to hold: the gzip stream of the input when
\* compression is enabled, the input otherwise
Transformed == IF compress THEN Gzip(input) ELSE input

\* C1, as stated: the bytes the hasher holds when the digest is taken are
\* the raw input bytes (no compression) or the compressed bytes (with
\* compression), and the hash literal shows their digest.
C1_AsStated ==
    pc = "done" /\ sha /\ firstErr = "nil" =>
        /\ digestOf = Transformed
        /\ EmittedDigest = Sha1Sum(Transformed)

\* What Embed hashes instead: the text it wrote before taking the digest
\* (the comment, the declaration, the byte lines and the closing brace),
\* uncompressed also when compression is enabled.
HashCoversWrittenText ==
    DigestTaken =>
        LET before == Written({"header", "line", "footer"}) IN
        /\ digestOf = Flatten([i \in 1..Len(before) |-> before[i].data])
        /\ digestOf # Transformed
        /\ pc = "done" /\ firstErr = "nil" => EmittedDigest = Sha1Sum(digestOf)

\* C2, as stated: the hex entries of the data literal delivered to the
\* sink are the transformed stream (the gzip stream of the input when
\* compression is enabled), and gunzipping it gives the input back.
C2_AsStated ==
    pc = "done" /\ err = "nil" =>
        LET lit == ParseLiteral(sink) IN
        /\ lit = Transformed
        /\ compress => Gunzip(lit) = input

\* What Embed delivers: without compression the text it wrote, whose data
\* literal holds the input; with compression the gzip stream of that text,
\* whose data literal still holds the uncompressed input.
SinkHoldsTextOrItsGzip ==
    pc = "done" /\ err = "nil" =>
        /\ ~compress => sink = WrittenText /\ ParseLiteral(sink) = input
        /\ compress => /\ Gunzip(sink) = WrittenText
                       /\ ParseLiteral(sink) = <<-1>>
                       /\ ParseLiteral(Gunzip(sink)) = input

\* C3: when no read and no write failed, the data block has ceil(L/12)
\* byte lines between the header and the closing brace, each of 12
\* entries but the last, which has L mod 12 (12 when 12 divides L > 0);
\* an empty input gives the header and the brace alone; the entries are
\* the input, in order.
C3_Chunking ==
    pc = "done" /\ firstErr = "nil" =>
        LET len == Len(input)
            ls == DataLines
            k == Len(ls)
        IN
        /\ k = (len + BUF_SIZE - 1) \div BUF_SIZE
        /\ wrote[1].kind = "header"
        /\ \A i \in 1..k : wrote[1 + i].kind = "line"
        /\ wrote[k + 2] = [kind |-> "footer", data |-> Footer]
        /\ \A i \in 1..k :
              EntryCount(ls[i].data) =
                  IF i < k THEN BUF_SIZE
                  ELSE IF len % BUF_SIZE = 0 THEN BUF_SIZE ELSE len % BUF_SIZE
        /\ HexBytes(Flatten([i \in 1..k |-> ls[i].data])) = input
        /\ ~compress => IsPrefix(Flatten([i \in 1..(k + 2) |-> wrote[i].data]), sink)

\* an input of 24 bytes was written as two full lines, and the read after
\* them found the end of the stream
C3_Witness ==
    /\ pc = "done" /\ firstErr = "nil"
    /\ Len(input) = 2 * BUF_SIZE
    /\ Len(DataLines) = 2
    /\ reads = 3

\* C4, as stated: a byte line is a tab, the entries separated by ", ", and
\* a newline, and nothing stands between the last entry and the newline.
C4_AsStated ==
    \A i \in 1..Len(wrote) :
        wrote[i].kind \in {"line", "hashline"} =>
            \E k \in 1..BUF_SIZE : IsByteLine(wrote[i].data, k, <<>>)

\* C4, amended: a byte line is a tab, the entries 0xhh (two lower-case
\* hex digits) separated by ", ", a comma after the last entry, and a
\* newline: only the space of the last separator is trimmed.
C4_TrailingComma ==
    \A i \in 1..Len(wrote) :
        wrote[i].kind \in {"line", "hashline"} =>
            \E k \in 1..BUF_SIZE : IsByteLine(wrote[i].data, k, <<44>>)

\* a data line of three entries ("ABC") and the two hash lines were written
C4_Witness ==
    /\ pc = "done"
    /\ Len(Written({"hashline"})) = 2
    /\ DataLines = <<[kind |-> "line",
                      data |-> <<9, 48, 120, 52, 49, 44, 32, 48, 120, 52, 50,
                                 44, 32, 48, 120, 52, 51, 44, 10>>]>>

\* C7: Embed returns the first error of a write or of a read that is not
\* the end of the stream, also when the close fails too; the close's error
\* when nothing failed before; nil otherwise, never an end of stream.
C7_FirstFailureWins ==
    pc = "done" =>
        /\ err = IF firstErr # "nil" THEN firstErr ELSE closeErr
        /\ ~IsEnd(err)
        /\ ~IsEnd(firstErr)

\* a read failed, then the close failed too, and the read's error is returned
C7_Witness ==
    /\ pc = "done"
    /\ firstErr = "ReadErr"
    /\ closeErr = "SinkErr"
    /\ err = "ReadErr"

\* C8: after the first failed write or read Embed reads nothing more and
\* writes nothing more; only the compressor's finalization may still add to
\* the sink; what the sink holds is never taken back; the failure's error
\* is what Embed returns.
C8_FailureIsTerminal ==
    [][/\ firstErr # "nil" =>
            /\ reads' = reads
            /\ srcPos' = srcPos
            /\ wrote' = wrote
            /\ sink' # sink => closes' = closes + 1
       /\ IsPrefix(sink, sink')
       /\ firstErr # "nil" => firstErr' = firstErr
       /\ pc' = "done" /\ firstErr' # "nil" => err' = firstErr'
      ]_vars

\* the write of the second byte line failed after part of it reached the
\* sink, with input left unread, and Embed returned that error
C8_Witness ==
    /\ pc = "done"
    /\ ~compress
    /\ err = "SinkErr"
    /\ Len(DataLines) = 2
    /\ wrote[Len(wrote)].kind = "line"
    /\ srcPos < Len(input)
    /\ ~IsPrefix(WrittenText, sink)
    /\ Len(sink) > Len(wrote[1].data) + Len(wrote[2].data)

\* C10: with compression the compressor is closed exactly once on every
\* way out of Embed, after the last write through it; without compression
\* nothing is closed; the caller's sink is never closed.
C10_ClosedOnce ==
    [][/\ pc' = "done" => closes' = IF compress THEN 1 ELSE 0
       /\ pc' # "done" => closes' = 0
       /\ closes > 0 => wrote' = wrote
       /\ ~sinkClosed'
      ]_vars

\* with compression a read failed after a byte line was written, and the
\* compressor was closed once on the way out
C10_Witness ==
    /\ pc = "done"
    /\ compress
    /\ firstErr = "ReadErr"
    /\ Len(DataLines) = 1
    /\ closes = 1
    /\ Gunzip(sink) = WrittenText

----------------------------------------------------------------------------
(* main: the flags, the package name, the output file, the loop over the   *)
(* input files.  Every call into the operating system, WritePackage and    *)
(* Embed either succeeds or fails; Spec shows that Embed can do both.      *)

InitMain ==
    /\ InitSanitiseIdle
    /\ InitEmbedIdle
    /\ mPc = "flags"
    /\ mUseO \in BOOLEAN
    /\ mArgs \in 0..MaxFiles
    /\ mI = 0
    /\ mDst = "nil"
    /\ mSrc = "nil"
    /\ mExit = -1
    /\ mDiag = <<>>
    /\ mFailed = {}
    /\ mEmbedded = {}
    /\ mOpened = {}

\* os.Exit(status), after the files at hand were closed
Exit(status) ==
    /\ mExit' = status
    /\ mPc' = "exit"
    /\ mDst' = IF mDst = "open" THEN "closed" ELSE mDst
    /\ mSrc' = IF mSrc = "open" THEN "closed" ELSE mSrc

\* a line on os.Stderr about the file at hand (0: none) and the step
Report(step) == mDiag' = Append(mDiag, [file |-> mI, step |-> step])

\* continue: src is closed if it is open, and the loop goes to the next name
Continue ==
    /\ mI' = mI + 1
    /\ mPc' = "open"
    /\ mSrc' = "nil"
    /\ UNCHANGED <<mExit, mDst>>

\* what the failure of a step of the loop does: "exit" is os.Exit(1),
\* "continue" goes on with the next file
Fail(step, what) ==
    /\ Report(step)
    /\ mFailed' = mFailed \cup {mI}
    /\ IF what = "exit" THEN Exit(1) /\ UNCHANGED mI ELSE Continue

AfterOpenFailure == "continue"

AfterCreateFailure == "continue"

AfterPackageFailure == "exit"

AfterEmbedFailureContinue == "continue"

AfterEmbedFailure == "exit"

AfterCloseFailure == "exit"

\* flag.Parse and the check that there are arguments
ParseFlags ==
    /\ mPc = "flags"
    /\ IF mArgs = 0
       THEN Exit(2) /\ UNCHANGED <<mI, mDiag>>
       ELSE mPc' = "pkg" /\ UNCHANGED <<mI, mDst, mSrc, mExit, mDiag>>
    /\ UNCHANGED <<sanVars, embedVars, mUseO, mArgs, mFailed, mEmbedded,
                   mOpened>>

\* the package name is given, or build.ImportDir finds it or fails
PackageName ==
    /\ mPc = "pkg"
    /\ \/ mPc' = "output" /\ UNCHANGED <<mDst, mSrc, mExit, mDiag>>
       \/ Report("pkg") /\ Exit(1)
    /\ UNCHANGED <<sanVars, embedVars, mUseO, mArgs, mI, mFailed, mEmbedded,
                   mOpened>>

\* with -o the one output file is created and given its package statement
OpenOutput ==
    /\ mPc = "output"
    /\ \/ /\ mPc' = "open"
          /\ mI' = 1
          /\ mDst' = IF mUseO THEN "open" ELSE "nil"
          /\ UNCHANGED <<mSrc, mExit, mDiag>>
       \/ /\ mUseO
          /\ \E step \in {"output", "outputpackage"} : Report(step)
          /\ Exit(1)
          /\ UNCHANGED mI
    /\ UNCHANGED <<sanVars, embedVars, mUseO, mArgs, mFailed, mEmbedded,
                   mOpened>>

\* src, err := os.Open(name)
OpenSrc ==
    /\ mPc = "open"
    /\ mI <= mArgs
    /\ mOpened' = mOpened \cup {mI}
    /\ \/ /\ mSrc' = "open"
          /\ mPc' = IF mDst = "nil" THEN "create" ELSE "embed"
          /\ UNCHANGED <<mI, mDst, mExit, mDiag, mFailed>>
       \/ Fail("open", AfterOpenFailure)
    /\ UNCHANGED <<sanVars, embedVars, mUseO, mArgs, mEmbedded>>

\* dst, err = os.Create(filepath.Base(name) + ".go")
CreateDst ==
    /\ mPc = "create"
    /\ \/ /\ mDst' = "open"
          /\ mPc' = "package"
          /\ UNCHANGED <<mI, mSrc, mExit, mDiag, mFailed>>
       \/ Fail("create", AfterCreateFailure)
    /\ UNCHANGED <<sanVars, embedVars, mUseO, mArgs, mEmbedded, mOpened>>

\* WritePackage(dst) for the file's own output
WriteFilePackage ==
    /\ mPc = "package"
    /\ \/ /\ mPc' = "embed"
          /\ UNCHANGED <<mI, mDst, mSrc, mExit, mDiag, mFailed>>
       \/ Fail("package", AfterPackageFailure)
    /\ UNCHANGED <<sanVars, embedVars, mUseO, mArgs, mEmbedded, mOpened>>

\* Embed(dst, src, name)
CallEmbed ==
    /\ mPc = "embed"
    /\ \/ /\ mEmbedded' = mEmbedded \cup {mI}
          /\ mPc' = "closesrc"
          /\ UNCHANGED <<mI, mDst, mSrc, mExit, mDiag, mFailed>>
       \/ Fail("embed", AfterEmbedFailure) /\ UNCHANGED mEmbedded
    /\ UNCHANGED <<sanVars, embedVars, mUseO, mArgs, mOpened>>

\* src.Close()
CloseSrc ==
    /\ mPc = "closesrc"
    /\ \/ /\ mSrc' = "nil"
          /\ IF mUseO
             THEN mI' = mI + 1 /\ mPc' = "open"
             ELSE mI' = mI /\ mPc' = "closedst"
          /\ UNCHANGED <<mDst, mExit, mDiag, mFailed>>
       \/ Fail("closesrc", AfterCloseFailure)
    /\ UNCHANGED <<sanVars, embedVars, mUseO, mArgs, mEmbedded, mOpened>>

\* without -o: dst.Close() and dst = nil
CloseDst ==
    /\ mPc = "closedst"
    /\ \/ /\ mDst' = "nil"
          /\ mI' = mI + 1
          /\ mPc' = "open"
          /\ UNCHANGED <<mSrc, mExit, mDiag, mFailed>>
       \/ Fail("closedst", AfterCloseFailure)
    /\ UNCHANGED <<sanVars, embedVars, mUseO, mArgs, mEmbedded, mOpened>>

\* the loop is over and main returns
MainReturns ==
    /\ mPc = "open"
    /\ mI > mArgs
    /\ mExit' = 0
    /\ mPc' = "exit"
    /\ UNCHANGED <<sanVars, embedVars, mUseO, mArgs, mI, mDst, mSrc, mDiag,
                   mFailed, mEmbedded, mOpened>>

NextMain ==
    \/ ParseFlags
    \/ PackageName
    \/ OpenOutput
    \/ OpenSrc
    \/ CreateDst
    \/ WriteFilePackage
    \/ CallEmbed
    \/ CloseSrc
    \/ CloseDst
    \/ MainReturns

SpecMain == InitMain /\ [][NextMain]_vars

----------------------------------------------------------------------------
(* Claims about main *)

\* the reports about input files, in the order they were written
FileReports == SelectSeq(mDiag, LAMBDA d : d.file > 0)

Skipping == {"open", "create"}

Fatal == {"package", "embed", "closesrc", "closedst"}

\* C9, as stated: every failure about a file ends that file's processing,
\* is reported, and makes the exit status non-zero; with -o no input after
\* the failed one is processed.
C9_AsStated ==
    /\ Len(FileReports) = Cardinality(mFailed)
    /\ \A i \in 1..Len(FileReports) : FileReports[i].file \in mFailed
    /\ \A f \in mFailed : mPc = "exit" \/ mI # f
    /\ mPc = "exit" /\ mFailed # {} => mExit # 0
    /\ mUseO => \A f \in mFailed : \A g \in mOpened : g <= f

\* C9, amended: every failure about a file is reported and ends that
\* file's processing.  A failure to write the package statement, of Embed
\* or of a close ends the process at once with status 1, with and without
\* -o, so that no later input is processed.  A failure to open the input
\* or to create its output only skips that file: the loop goes on with the
\* next input, with and without -o, and the process exits with status 0
\* unless a later step fails fatally.
C9_SkipOrExit ==
    /\ Len(FileReports) = Cardinality(mFailed)
    /\ \A f \in mFailed : mPc = "exit" \/ mI # f
    /\ \A i \in 1..Len(FileReports) :
          LET d == FileReports[i] IN
          /\ d.file \in mFailed
          /\ d.step \in Skipping \cup Fatal
          /\ d.step \in Skipping \cup {"package", "embed"}
                => d.file \notin mEmbedded
          /\ d.step \in Skipping /\ mPc # "exit" => mI > d.file
          /\ d.step \in Fatal =>
                /\ i = Len(FileReports)
                /\ mPc = "exit" /\ mExit = 1
                /\ \A g \in mOpened : g <= d.file
    /\ mPc = "exit" /\ mExit = 0 =>
          /\ mOpened = 1..mArgs
          /\ \A i \in 1..Len(FileReports) : FileReports[i].step \in Skipping
          /\ mEmbedded = mOpened \ mFailed
    /\ mPc = "exit" /\ mExit = 1 /\ mI > 0 =>
          /\ FileReports # <<>>
          /\ FileReports[Len(FileReports)].step \in Fatal

\* with -o the first input could not be opened, the second was embedded,
\* and the process ended with status 0
C9_Witness ==
    /\ mPc = "exit"
    /\ mUseO
    /\ mExit = 0
    /\ mFailed = {1}
    /\ 2 \in mEmbedded

=============================================================================
